---- MODULE Spec2Model ----
(***************************************************************************)
(* A model of myShell: the tokens of a line are split into pipeline        *)
(* segments (split_pipeline), each segment of a pipeline is resolved into  *)
(* a Command (parse_command), and the commands are run by execute_command  *)
(* (one stage) or execute_pipeline (several stages).  File descriptor      *)
(* tables are modelled per process; open() returns the lowest free         *)
(* descriptor, fork() copies the parent's table.                           *)
(***************************************************************************)
EXTENDS Integers, Sequences, FiniteSets, TLC

VARIABLES
    ppc,          \* where the shell process is
    tokens,       \* execute_line: the tokens of the line being executed
    commands,     \* execute_line: what split_pipeline returned
    cmd_structs,  \* execute_line: the Command array of the pipeline branch
    pfd,          \* the shell's descriptor table
    pipes,        \* execute_pipeline: pipes[k] = <<read fd, write fd>>
    idx,          \* the loop index of the loop the shell is in
    child,        \* the processes forked for the line, by stage
    opened,       \* descriptors opened by the latest parse_command call
    created,      \* files opened with O_CREAT while executing the line
    msgs,         \* diagnostics reported while executing the line
    nforks,       \* fork() calls that succeeded while executing the line
    input,        \* parse_input: the characters of the line it is given
    scan,         \* parse_input: input_copy, i, tokens_size while it runs
    clean,        \* the last line was a pipeline that parsed and spawned
    before,       \* the descriptors the shell had open when the line began
    nlines        \* lines read so far: the shell is followed through its first

vars == <<ppc, tokens, commands, cmd_structs, pfd, pipes, idx, child, opened,
          created, msgs, nforks, clean, before, nlines, input, scan>>

----------------------------------------------------------------------------
(* Bounds of the model *)

\* descriptors 0..MaxFd exist in every process (the RLIMIT_NOFILE of the run)
MaxFd == 9
\* pipelines of the process model have at most this many stages
MaxStages == 3
\* split_pipeline is fed lines with up to this many `|` tokens
MaxPipeTokens == 11
\* and segments of up to this many tokens
MaxSegLen == 2
\* the program of a simple command is stopped at most this many times
MaxStops == 1

(* Program constants *)

\* split_pipeline: int max_cmds = 10
max_cmds == 10
STDIN_FILENO == 0
STDOUT_FILENO == 1
STDERR_FILENO == 2

----------------------------------------------------------------------------
(* Sequences *)

Last(s) == s[Len(s)]

Count(s, t) == Cardinality({k \in 1..Len(s) : s[k] = t})

Min(S) == CHOOSE x \in S : \A y \in S : x <= y

----------------------------------------------------------------------------
(* split_pipeline *)

ErrMissingCommand == "myshell: syntax error: missing command"
ErrMissingAfterPipe == "myshell: syntax error: missing command after pipe"
ErrTooManyPipes == "myshell: too many pipes"
ErrMissingFile == "myshell: syntax error: missing file for redirection"

NoCommands == [ok |-> FALSE, err |-> "", cmds |-> <<>>]

\* parse_input is not running: it has no buffer and no token array
NoScan == [input_copy |-> <<>>, i |-> 0, tokens_size |-> 0, oob |-> FALSE]

\* The copy of tokens[start .. start+cmd_len-1] into commands[*cmd_count].
\* Indices are the code's (0-based); the sequence is 1-based.
CopySegment(toks, start, cmd_len) ==
    [j \in 1..cmd_len |-> toks[start + j]]

\* start = i: the next segment would begin at the `|` itself
NextStartAtPipe(i) == i

\* The statement after a segment is stored: start = i + 1.
NextStart(i) == i + 1

\* The test that ends a too-long pipeline: *cmd_count >= max_cmds.
TooMany(cmd_count) == cmd_count >= max_cmds

\* tokens[i+1] == NULL at the `|` at index i: nothing follows the pipe
PipeNeverLast(toks, i) == FALSE

PipeIsLast(toks, i) == i + 1 >= Len(toks)

\* The index of the first `|` at or after index i, or of the NULL that ends
\* the tokens: the turns of the for loop before it change nothing.
NextPipe(toks, i) ==
    Min({k \in i..(Len(toks) - 1) : toks[k + 1] = "|"} \cup {Len(toks)})

\* The for loop of split_pipeline from index i (0-based), with the segments
\* stored so far, and the code after the loop.
RECURSIVE SplitLoop(_, _, _, _)
SplitLoop(toks, from, start, cmds) ==
    LET i == NextPipe(toks, from) IN
    IF i >= Len(toks)
    THEN \* tokens[i] == NULL: handle the last command
         IF start >= i
         THEN [ok |-> FALSE, err |-> ErrMissingCommand, cmds |-> <<>>]
         ELSE [ok |-> TRUE, err |-> "",
               cmds |-> Append(cmds, CopySegment(toks, start, i - start))]
    ELSE IF i = start \/ start >= i
         THEN [ok |-> FALSE, err |-> ErrMissingCommand, cmds |-> <<>>]
         ELSE IF PipeIsLast(toks, i)
         THEN [ok |-> FALSE, err |-> ErrMissingAfterPipe, cmds |-> <<>>]
         ELSE LET stored == Append(cmds, CopySegment(toks, start, i - start))
              IN  IF TooMany(Len(stored))
                  THEN [ok |-> FALSE, err |-> ErrTooManyPipes, cmds |-> <<>>]
                  ELSE SplitLoop(toks, i + 1, NextStart(i), stored)

split_pipeline(toks) == SplitLoop(toks, 0, 0, <<>>)

----------------------------------------------------------------------------
(* Descriptor tables *)

Fds == 0..MaxFd

Closed == [k |-> "closed", n |-> "", i |-> 0, m |-> ""]
Tty == [k |-> "tty", n |-> "", i |-> 0, m |-> "rw"]
File(name, mode) == [k |-> "file", n |-> name, i |-> 0, m |-> mode]
\* end m ("r" or "w") of the i-th pipe of the running pipeline; i = 0 is a
\* pipe of an earlier line
PipeEnd(i, m) == [k |-> "pipe", n |-> "", i |-> i, m |-> m]

\* the table a process has with nothing open, and the shell's at start:
\* the three standard streams inherited from the terminal
NoTable == [fd \in Fds |-> Closed]
StdTable == [fd \in Fds |-> IF fd <= STDERR_FILENO THEN Tty ELSE Closed]

OpenFds(tab) == {fd \in Fds : tab[fd] # Closed}
FreeFds(tab) == {fd \in Fds : tab[fd] = Closed}

\* close(fd): EBADF (no effect) when fd is not an open descriptor
close(tab, fd) ==
    IF fd \in Fds THEN [tab EXCEPT ![fd] = Closed] ELSE tab

RECURSIVE CloseAll(_, _)
CloseAll(tab, fds) ==
    IF fds = <<>> THEN tab ELSE CloseAll(close(tab, Head(fds)), Tail(fds))

\* dup2(old, new) with old open: new becomes another reference to old's file
dup2(tab, old, new) ==
    IF old = new THEN tab ELSE [tab EXCEPT ![new] = tab[old]]

\* Names: "nf" is a path that cannot be opened in any mode (it lies in a
\* directory that does not exist); every other name can be opened and created.
Openable(name) == name # "nf"

\* open(name, ...): the lowest free descriptor, or -1 (ENOENT, EMFILE)
open(tab, name) ==
    IF Openable(name) /\ FreeFds(tab) # {} THEN Min(FreeFds(tab)) ELSE -1

----------------------------------------------------------------------------
(* parse_command *)

IsRedirOp(t) == t \in {"<", ">", "2>"}

Indeterminate == [args |-> <<>>, input_fd |-> -2, output_fd |-> -2, error_fd |-> -2]
NewCommand == [args |-> <<>>, input_fd |-> -1, output_fd |-> -1, error_fd |-> -1]

\* The first loop: "missing" when the last token is a redirection operator,
\* else whether a token that is neither an operator nor its operand was seen.
RECURSIVE CountArgs(_, _, _)
CountArgs(toks, i, has_command) ==
    IF i >= Len(toks) THEN [missing |-> FALSE, has_command |-> has_command]
    ELSE IF i + 1 >= Len(toks) /\ IsRedirOp(toks[i + 1])
    THEN [missing |-> TRUE, has_command |-> has_command]
    ELSE IF IsRedirOp(toks[i + 1]) THEN CountArgs(toks, i + 2, has_command)
    ELSE CountArgs(toks, i + 1, TRUE)

\* What parse_command does to the descriptors it has opened when a later
\* open fails: free(cmd->args); free(cmd); return NULL.
ParseFailTable(tab, cmd) == tab

\* The second loop from index i: the command, the table and the files created
\* so far.
RECURSIVE BuildCommand(_, _, _, _, _)
BuildCommand(toks, i, cmd, tab, cr) ==
    IF i >= Len(toks)
    THEN [ok |-> TRUE, err |-> "", cmd |-> cmd, tab |-> tab, created |-> cr]
    ELSE LET t == toks[i + 1] IN
         IF IsRedirOp(t)
         THEN LET name == toks[i + 2]
                  fd == open(tab, name)
              IN  IF fd < 0
                  THEN [ok |-> FALSE,
                        err |-> IF t = "<" THEN "myshell: No such file or directory"
                                ELSE "myshell: open failed",
                        cmd |-> Indeterminate,
                        tab |-> ParseFailTable(tab, cmd), created |-> cr]
                  ELSE IF t = "<"
                  THEN BuildCommand(toks, i + 2, [cmd EXCEPT !.input_fd = fd],
                                    [tab EXCEPT ![fd] = File(name, "r")], cr)
                  ELSE IF t = ">"
                  THEN BuildCommand(toks, i + 2, [cmd EXCEPT !.output_fd = fd],
                                    [tab EXCEPT ![fd] = File(name, "w")],
                                    cr \cup {name})
                  ELSE BuildCommand(toks, i + 2, [cmd EXCEPT !.error_fd = fd],
                                    [tab EXCEPT ![fd] = File(name, "w")],
                                    cr \cup {name})
         ELSE BuildCommand(toks, i + 1, [cmd EXCEPT !.args = Append(@, t)], tab, cr)

\* parse_command(tokens, 0, end) on the shell's table
parse_command(toks, tab, cr) ==
    LET c == CountArgs(toks, 0, FALSE) IN
    IF c.missing
    THEN [ok |-> FALSE, err |-> ErrMissingFile, cmd |-> Indeterminate,
          tab |-> tab, created |-> cr]
    ELSE IF ~c.has_command
    THEN [ok |-> FALSE, err |-> ErrMissingCommand, cmd |-> Indeterminate,
          tab |-> tab, created |-> cr]
    ELSE BuildCommand(toks, 0, NewCommand, tab, cr)

----------------------------------------------------------------------------
(* setup_redirection, in the child of execute_command *)

IsRedirOpChild(t) == t \in {">", "<", "2>"}

\* The counting loop: it steps over the token after an operator without
\* looking at it, so an operator in last position takes i past the NULL.
RECURSIVE CountOverruns(_, _)
CountOverruns(args, i) ==
    IF i = Len(args) THEN FALSE
    ELSE IF i > Len(args) THEN TRUE
    ELSE IF IsRedirOpChild(args[i + 1]) THEN CountOverruns(args, i + 2)
    ELSE CountOverruns(args, i + 1)

\* The second loop from index i.  exits: the failure calls exit() itself (the
\* >> branch); otherwise it calls free_args(new_args) on an array with no NULL
\* terminator yet and returns NULL.
RECURSIVE RedirLoop(_, _, _, _, _)
RedirLoop(args, i, new_args, tab, cr) ==
    IF i >= Len(args)
    THEN [ok |-> TRUE, err |-> "", exits |-> FALSE, argv |-> new_args,
          tab |-> tab, created |-> cr]
    ELSE LET t == args[i + 1] IN
         IF t \in {">", "2>", "<", ">>"}
         THEN IF i + 1 >= Len(args)
              THEN [ok |-> FALSE,
                    err |-> IF t = "<" THEN "myshell: syntax error: missing input file"
                            ELSE IF t = "2>" THEN "myshell: syntax error: missing error file"
                            ELSE "myshell: syntax error: missing output file",
                    exits |-> (t = ">>"), argv |-> <<>>, tab |-> tab, created |-> cr]
              ELSE LET name == args[i + 2]
                       fd == open(tab, name)
                       to == IF t = "<" THEN STDIN_FILENO
                             ELSE IF t = "2>" THEN STDERR_FILENO ELSE STDOUT_FILENO
                       mode == IF t = "<" THEN "r" ELSE IF t = ">>" THEN "a" ELSE "w"
                   IN  IF fd < 0
                       THEN [ok |-> FALSE,
                             err |-> IF t = "<" THEN "myshell: No such file or directory"
                                     ELSE "myshell: open failed",
                             exits |-> (t = ">>"), argv |-> <<>>, tab |-> tab,
                             created |-> cr]
                       ELSE RedirLoop(args, i + 2, new_args,
                                close(dup2([tab EXCEPT ![fd] = File(name, mode)], fd, to), fd),
                                IF t = "<" THEN cr ELSE cr \cup {name})
         ELSE RedirLoop(args, i + 1, Append(new_args, t), tab, cr)

setup_redirection(args, tab, cr) == RedirLoop(args, 0, <<>>, tab, cr)

----------------------------------------------------------------------------
(* The lines the read loop is given, as parse_input returns them *)

RECURSIVE Join(_)
Join(segs) ==
    IF Len(segs) = 1 THEN segs[1] ELSE segs[1] \o <<"|">> \o Join(Tail(segs))

\* "a" is a program execvp finds, "nx" one it does not find
GoodSegs ==
    { <<"a">>, <<"a", "<", "f">>, <<"a", ">", "g">>, <<"a", "2>", "h">> }

Pipelines ==
    UNION { { Join(s) : s \in [1..n -> GoodSegs] } : n \in 2..MaxStages }

OtherLines ==
    { <<"a">>, <<"nx">>, <<"a", ">", "g">>, <<"a", "<", "nf">>,
      <<"a", ">>", "g">>, <<"a", "|", "a", ">>", "g">>,
      <<"a", "<", "f", "2>", "h">>,
      <<">", "g">>, <<"a", "|", ">", "g">>, <<"a", ">", "g", "|", "2>", "h">>,
      <<"a", ">">>, <<"a", ">", "g", "<">>, <<"a", "|", "a", "<">>, <<"a", "|">>, <<"|", "a">>,
      <<"a", "|", "|", "a">>,
      <<"a", "<", "f", "<", "f", "|", "a">>,
      <<"a", ">", "g", "<", "nf", "|", "a">>, <<"a", "|", "a", "<", "nf">>,
      <<"nx", "|", "a">>, <<"a", "|", "nx">>, <<"a", "|", "nx", "|", "a">>,
      <<"a", "|", "a", "<", "f", ">", "g", "2>", "h", "|", "a">>,
      <<"cd">>, <<"exit">> }

Lines == Pipelines \cup OtherLines

----------------------------------------------------------------------------
(* Processes *)

\* a child right after fork(): a copy of the shell's table, nothing done yet
NewChild(tab) ==
    [st |-> "forked", fd |-> tab, argv |-> <<>>, code |-> -1, failed |-> FALSE,
     noargv |-> FALSE, wstopped |-> FALSE, stops |-> 0]

EXIT_FAILURE == 1
\* the status of a process killed by SIGSEGV, as a shell reports it
SIGSEGV_STATUS == 128 + 11

\* exit(code), or death by a signal: the process is gone and so are all its
\* descriptors
Exited(c, code, failed) ==
    [c EXCEPT !.st = "exited", !.fd = NoTable, !.code = code, !.failed = failed]

\* execvp() returned and the child goes on in the code it shares with the shell
ExecFailedReturns(c) == [c EXCEPT !.st = "returned", !.failed = TRUE]

\* execvp() returned: fprintf(...); exit(EXIT_FAILURE)
ExecFailed(c) == Exited(c, EXIT_FAILURE, TRUE)

ExecFinds(name) == name # "nx"

cmd_count == Len(commands.cmds)

\* The redirection descriptors of a Command, in the order the cleanup loops
\* close them, those equal to -1 left out
CmdFds(cmd) ==
    SelectSeq(<<cmd.input_fd, cmd.output_fd, cmd.error_fd>>, LAMBDA fd : fd # -1)

RECURSIVE CloseCmds(_, _)
CloseCmds(tab, cmds) ==
    IF cmds = <<>> THEN tab
    ELSE CloseCmds(CloseAll(tab, CmdFds(Head(cmds))), Tail(cmds))

\* both ends of every pipe, in the order the close loops visit them
RECURSIVE PipeFds(_)
PipeFds(pp) ==
    IF pp = <<>> THEN <<>> ELSE <<pp[1][1], pp[1][2]>> \o PipeFds(Tail(pp))

\* The child of stage i (0-based) of n, lines 634-647: the pipe wiring
PipeWiring(tab, i, n, pp) ==
    LET t1 == IF i > 0 THEN dup2(tab, pp[i][1], STDIN_FILENO) ELSE tab
    IN  IF i < n - 1 THEN dup2(t1, pp[i + 1][2], STDOUT_FILENO) ELSE t1

\* the child closes no pipe descriptor
ChildKeepsPipes(tab, pp) == tab

\* the child closes the read end of every pipe and no write end
ChildClosesReadEnds(tab, pp) == CloseAll(tab, [q \in 1..Len(pp) |-> pp[q][1]])

\* lines 650-653: close all pipe fds in the child
ChildClosePipes(tab, pp) == CloseAll(tab, PipeFds(pp))

\* lines 656-661: the command's own redirections
ApplyRedirections(tab, cmd) ==
    LET t1 == IF cmd.input_fd # -1 THEN dup2(tab, cmd.input_fd, STDIN_FILENO) ELSE tab
        t2 == IF cmd.output_fd # -1 THEN dup2(t1, cmd.output_fd, STDOUT_FILENO) ELSE t1
    IN  IF cmd.error_fd # -1 THEN dup2(t2, cmd.error_fd, STDERR_FILENO) ELSE t2

\* the command's redirections applied before the pipe wiring
ChildStreamsRedirFirst(tab, i, n, pp, cmd) ==
    ChildClosePipes(PipeWiring(ApplyRedirections(tab, cmd), i, n, pp), pp)

\* The table of the child of stage i when it calls execvp
ChildStreams(tab, i, n, pp, cmd) ==
    ApplyRedirections(ChildClosePipes(PipeWiring(tab, i, n, pp), pp), cmd)

Holds(tab, i, m) == \E fd \in Fds : tab[fd] = PipeEnd(i, m)

Alive(c) == c.st \in {"forked", "running"}

\* Some process holds end m of pipe i: the shell, or a child that is alive
Held(i, m) ==
    \/ Holds(pfd, i, m)
    \/ \E j \in 1..Len(child) : Alive(child[j]) /\ Holds(child[j].fd, i, m)

\* A running program's standard input is at end-of-file, or can reach it: it
\* is not a pipe, or it is a pipe no process holds a write end of
InputEnds(c) ==
    LET in == c.fd[STDIN_FILENO]
    IN  in.k # "pipe" \/ in.m # "r" \/ ~Held(in.i, "w")

\* A running program's writes fail: its standard output is a pipe no process
\* holds a read end of (EPIPE, SIGPIPE)
OutputBroken(c) ==
    LET out == c.fd[STDOUT_FILENO]
    IN  out.k = "pipe" /\ out.m = "w" /\ ~Held(out.i, "r")

----------------------------------------------------------------------------
(* execute_line *)

Init ==
    /\ ppc = "read"
    /\ tokens = <<>>
    /\ commands = NoCommands
    /\ cmd_structs = <<>>
    /\ pfd = StdTable
    /\ pipes = <<>>
    /\ idx = 0
    /\ child = <<>>
    /\ opened = {}
    /\ created = {}
    /\ msgs = {}
    /\ nforks = 0
    /\ clean = FALSE
    /\ before = OpenFds(StdTable)
    /\ nlines = 0
    /\ input = <<>>
    /\ scan = NoScan

\* main: fgets returned the first line (descriptor 0 is readable) and
\* execute_line starts
Reads(line) ==
    /\ ppc = "read"
    /\ nlines = 0
    /\ pfd[STDIN_FILENO] # Closed
    /\ tokens' = line
    /\ nlines' = nlines + 1
    /\ before' = OpenFds(pfd)
    /\ pipes' = <<>>
    /\ idx' = 0
    /\ opened' = {}
    /\ created' = {}

IsBuiltin(line) == line[1] \in {"cd", "exit"}

\* main: fgets fails on a closed descriptor 0 and the shell leaves its loop
ShellEof ==
    /\ ppc = "read"
    /\ pfd[STDIN_FILENO] = Closed
    /\ ppc' = "exited"
    /\ UNCHANGED <<tokens, commands, cmd_structs, pfd, pipes, idx, child, opened,
                   created, msgs, nforks, clean, before, nlines>>
    /\ UNCHANGED <<input, scan>>

\* execute_line, lines 86-96: handle_builtin handled the line
LineBuiltin(line) ==
    /\ Reads(line)
    /\ IsBuiltin(line)
    /\ ppc' = IF line[1] = "exit" THEN "exited" ELSE "read"
    /\ commands' = NoCommands
    /\ cmd_structs' = <<>>
    /\ child' = <<>>
    /\ msgs' = IF line = <<"cd">> THEN {"myshell: expected argument to cd"} ELSE {}
    /\ nforks' = 0
    /\ clean' = FALSE
    /\ UNCHANGED pfd
    /\ UNCHANGED <<input, scan>>

\* execute_line, lines 98-105: split_pipeline reported an error
LineSplitError(line) ==
    /\ Reads(line)
    /\ ~IsBuiltin(line)
    /\ ~split_pipeline(line).ok
    /\ commands' = split_pipeline(line)
    /\ cmd_structs' = <<>>
    /\ msgs' = {split_pipeline(line).err}
    /\ ppc' = "read"
    /\ child' = <<>>
    /\ nforks' = 0
    /\ clean' = FALSE
    /\ UNCHANGED pfd
    /\ UNCHANGED <<input, scan>>

\* a simple command whose Command is built by parse_command in the shell
\* before the fork, its redirection targets opened there
LineSimpleParsesFirst(line) ==
    /\ ppc = "read"
    /\ nlines = 0
    /\ pfd[STDIN_FILENO] # Closed
    /\ ~IsBuiltin(line)
    /\ split_pipeline(line).ok
    /\ Len(split_pipeline(line).cmds) = 1
    /\ LET r == parse_command(line, pfd, {}) IN
       /\ opened' = {fd \in Fds : r.tab[fd] # pfd[fd]}
       /\ created' = r.created
       /\ pfd' = r.tab
       /\ cmd_structs' = IF r.ok THEN <<r.cmd>> ELSE <<>>
       /\ child' = <<NewChild(r.tab)>>
    /\ tokens' = line
    /\ nlines' = nlines + 1
    /\ before' = OpenFds(pfd)
    /\ pipes' = <<>>
    /\ idx' = 0
    /\ commands' = split_pipeline(line)
    /\ clean' = FALSE
    /\ nforks' = 1
    /\ msgs' = {}
    /\ ppc' = "cmd_wait"
    /\ UNCHANGED <<input, scan>>

\* execute_line, lines 107-109, and execute_command up to the fork
LineSimple(line) ==
    /\ Reads(line)
    /\ ~IsBuiltin(line)
    /\ split_pipeline(line).ok
    /\ Len(split_pipeline(line).cmds) = 1
    /\ commands' = split_pipeline(line)
    /\ cmd_structs' = <<>>
    /\ clean' = FALSE
    /\ \/ \* fork() returned the child's pid
          /\ child' = <<NewChild(pfd)>>
          /\ nforks' = 1
          /\ msgs' = {}
          /\ ppc' = "cmd_wait"
       \/ \* fork() failed: perror, return
          /\ child' = <<>>
          /\ nforks' = 0
          /\ msgs' = {"myshell: fork failed"}
          /\ ppc' = "read"
    /\ UNCHANGED pfd
    /\ UNCHANGED <<input, scan>>

\* execute_line, lines 110-125: the Command array is allocated
LinePipeline(line) ==
    /\ Reads(line)
    /\ ~IsBuiltin(line)
    /\ split_pipeline(line).ok
    /\ Len(split_pipeline(line).cmds) > 1
    /\ commands' = split_pipeline(line)
    /\ cmd_structs' = [j \in 1..Len(split_pipeline(line).cmds) |-> Indeterminate]
    /\ ppc' = "parse"
    /\ child' = <<>>
    /\ msgs' = {}
    /\ nforks' = 0
    /\ clean' = FALSE
    /\ UNCHANGED pfd
    /\ UNCHANGED <<input, scan>>

\* execute_line, lines 126-144: one turn of the loop that parses the stages
ParseStage ==
    /\ ppc = "parse"
    /\ LET r == parse_command(commands.cmds[idx + 1], pfd, created) IN
       /\ opened' = {fd \in Fds : r.tab[fd] # pfd[fd]}
       /\ created' = r.created
       /\ IF r.ok
          THEN /\ cmd_structs' = [cmd_structs EXCEPT ![idx + 1] = r.cmd]
               /\ pfd' = r.tab
               /\ idx' = idx + 1
               /\ ppc' = IF idx + 1 = cmd_count THEN "pipes" ELSE "parse"
               /\ UNCHANGED msgs
          ELSE \* valid = 0: the commands parsed so far are freed and closed
               /\ pfd' = CloseCmds(r.tab, SubSeq(cmd_structs, 1, idx))
               /\ msgs' = msgs \cup {r.err}
               /\ ppc' = "invalid"
               /\ UNCHANGED <<cmd_structs, idx>>
    /\ UNCHANGED <<tokens, commands, pipes, child, nforks, clean, before,
                   nlines>>
    /\ UNCHANGED <<input, scan>>

\* execute_line, lines 150-165 with valid = 0.  The loop visits every entry of
\* cmd_structs: those before idx were freed and closed already (a double
\* free), those from idx on were never written (indeterminate values are
\* freed and closed).  Undefined behaviour: the shell is aborted or corrupted
\* ("undefined", which also stands for a stray close of descriptor 1 or 2), or
\* it goes on, the stray closes having hit any of its other open descriptors.
CleanupInvalid ==
    /\ ppc = "invalid"
    /\ \/ /\ ppc' = "undefined"
          /\ UNCHANGED pfd
       \/ \E S \in SUBSET (OpenFds(pfd) \ {STDOUT_FILENO, STDERR_FILENO}) :
            /\ Cardinality(S) <= 3 * (cmd_count - idx)
            /\ pfd' = [fd \in Fds |-> IF fd \in S THEN Closed ELSE pfd[fd]]
            /\ ppc' = "read"
    /\ clean' = FALSE
    /\ UNCHANGED <<tokens, commands, cmd_structs, pipes, idx, child, opened,
                   created, msgs, nforks, before, nlines>>
    /\ UNCHANGED <<input, scan>>

----------------------------------------------------------------------------
(* execute_command *)

\* The child of execute_command, lines 569-585, given whether an undefined
\* step of it ends in a fatal signal.  Undefined are: the counting loop of
\* setup_redirection running past the NULL, free_args on the unterminated
\* new_args, and execvp(NULL, ...).
SimpleChildOutcome(c, args, cr, killed) ==
    LET r == setup_redirection(args, c.fd, cr)
        dead == Exited(c, SIGSEGV_STATUS, TRUE)
        nullexec == [c EXCEPT !.noargv = TRUE]
    IN  IF CountOverruns(args, 0) /\ killed
        THEN [c |-> dead, msg |-> {}, created |-> cr]
        ELSE IF ~r.ok
        THEN IF ~r.exits /\ killed
             THEN [c |-> dead, msg |-> {r.err}, created |-> r.created]
             ELSE [c |-> Exited(c, EXIT_FAILURE, TRUE), msg |-> {r.err},
                   created |-> r.created]
        ELSE IF r.argv = <<>>
        THEN IF killed
             THEN [c |-> Exited(nullexec, SIGSEGV_STATUS, TRUE), msg |-> {},
                   created |-> r.created]
             ELSE [c |-> ExecFailed(nullexec),
                   msg |-> {"myshell: command not found: (null)"},
                   created |-> r.created]
        ELSE IF ~ExecFinds(r.argv[1])
        THEN [c |-> ExecFailed(c), msg |-> {"myshell: command not found"},
              created |-> r.created]
        ELSE [c |-> [c EXCEPT !.st = "running", !.fd = r.tab, !.argv = r.argv],
              msg |-> {}, created |-> r.created]

SimpleChild ==
    /\ ppc = "cmd_wait"
    /\ child[1].st = "forked"
    /\ \E killed \in BOOLEAN :
         LET o == SimpleChildOutcome(child[1], tokens, created, killed) IN
         /\ child' = <<o.c>>
         /\ msgs' = msgs \cup o.msg
         /\ created' = o.created
    /\ UNCHANGED <<ppc, tokens, commands, cmd_structs, pfd, pipes, idx, opened,
                   nforks, clean, before, nlines>>
    /\ UNCHANGED <<input, scan>>

\* The program of the simple command is stopped by a signal (SIGTSTP,
\* SIGSTOP): the stop is there for a waitpid with WUNTRACED to report
SimpleChildStop ==
    /\ ppc = "cmd_wait"
    /\ child[1].st = "running"
    /\ child[1].stops < MaxStops
    /\ ~child[1].wstopped
    /\ child' = [child EXCEPT ![1].st = "stopped", ![1].wstopped = TRUE]
    /\ UNCHANGED <<ppc, tokens, commands, cmd_structs, pfd, pipes, idx, opened,
                   created, msgs, nforks, clean, before, nlines, input, scan>>

\* SIGCONT: the program runs again; a stop not yet reported no longer is
SimpleChildCont ==
    /\ ppc = "cmd_wait"
    /\ child[1].st = "stopped"
    /\ child' = [child EXCEPT ![1].st = "running", ![1].wstopped = FALSE]
    /\ UNCHANGED <<ppc, tokens, commands, cmd_structs, pfd, pipes, idx, opened,
                   created, msgs, nforks, clean, before, nlines, input, scan>>

\* lines 587-590: where the parent is after waitpid reported a stop
\* (WIFSTOPPED): neither break condition holds and the loop calls waitpid again
ReturnsOnStop == "read"

AfterStopReport == "cmd_wait"

\* execute_command, lines 586-592, one return of waitpid(pid, &status,
\* WUNTRACED), and the rest of execute_line when the loop is left
CmdWait ==
    /\ ppc = "cmd_wait"
    /\ \/ /\ child[1].st = "exited"
          /\ child' = [child EXCEPT ![1].st = "reaped"]
          /\ ppc' = "read"
       \/ /\ child[1].wstopped
          /\ child' = [child EXCEPT ![1].wstopped = FALSE, ![1].stops = @ + 1]
          /\ ppc' = AfterStopReport
    /\ UNCHANGED <<tokens, commands, cmd_structs, pfd, pipes, idx, opened, created,
                   msgs, nforks, clean, before, nlines>>
    /\ UNCHANGED <<input, scan>>

----------------------------------------------------------------------------
(* execute_pipeline *)

\* lines 617-622: one turn of the loop that creates the pipes.  pipe() takes
\* the two lowest free descriptors; it fails when there are not two (EMFILE)
\* or when the system has none to give (ENFILE).
PipeCreate ==
    /\ ppc = "pipes"
    /\ \/ /\ Cardinality(FreeFds(pfd)) >= 2
          /\ LET r == Min(FreeFds(pfd))
                 w == Min(FreeFds(pfd) \ {r})
                 k == Len(pipes) + 1
             IN  /\ pfd' = [pfd EXCEPT ![r] = PipeEnd(k, "r"), ![w] = PipeEnd(k, "w")]
                 /\ pipes' = Append(pipes, <<r, w>>)
                 /\ ppc' = IF k = cmd_count - 1 THEN "fork" ELSE "pipes"
          /\ idx' = 0
          /\ UNCHANGED msgs
       \/ \* perror("myshell: pipe"); return
          /\ msgs' = msgs \cup {"myshell: pipe"}
          /\ ppc' = "cleanup"
          /\ UNCHANGED <<pfd, pipes, idx>>
    /\ UNCHANGED <<tokens, commands, cmd_structs, child, opened, created, nforks,
                   clean, before, nlines>>
    /\ UNCHANGED <<input, scan>>

\* lines 625-631: one turn of the loop that launches the processes, in the
\* shell
Fork ==
    /\ ppc = "fork"
    /\ \/ /\ child' = Append(child, NewChild(pfd))
          /\ nforks' = nforks + 1
          /\ idx' = idx + 1
          /\ ppc' = IF idx + 1 = cmd_count THEN "close_pipes" ELSE "fork"
          /\ UNCHANGED msgs
       \/ \* perror("myshell: fork"); return
          /\ msgs' = msgs \cup {"myshell: fork"}
          /\ ppc' = "cleanup"
          /\ UNCHANGED <<child, nforks, idx>>
    /\ UNCHANGED <<tokens, commands, cmd_structs, pfd, pipes, opened, created,
                   clean, before, nlines>>
    /\ UNCHANGED <<input, scan>>

\* lines 632-667: the child of stage i (1-based here), up to execvp and, when
\* execvp returns, to exit
ChildExec(i) ==
    /\ cmd_count > 1
    /\ i \in 1..Len(child)
    /\ child[i].st = "forked"
    /\ LET cmd == cmd_structs[i]
           tab == ChildStreams(child[i].fd, i - 1, cmd_count, pipes, cmd)
       IN  IF ExecFinds(cmd.args[1])
           THEN /\ child' = [child EXCEPT ![i] =
                                [@ EXCEPT !.st = "running", !.fd = tab, !.argv = cmd.args]]
                /\ UNCHANGED msgs
           ELSE /\ child' = [child EXCEPT ![i] = ExecFailed([@ EXCEPT !.fd = tab])]
                /\ msgs' = msgs \cup {"myshell: command not found"}
    /\ UNCHANGED <<ppc, tokens, commands, cmd_structs, pfd, pipes, idx, opened,
                   created, nforks, clean, before, nlines>>
    /\ UNCHANGED <<input, scan>>

\* The program of process i ends because its input ended or its writes fail
ChildExitEof(i) ==
    /\ i \in 1..Len(child)
    /\ child[i].st = "running"
    /\ InputEnds(child[i]) \/ OutputBroken(child[i])
    /\ child' = [child EXCEPT ![i] = Exited(@, 0, FALSE)]
    /\ UNCHANGED <<ppc, tokens, commands, cmd_structs, pfd, pipes, idx, opened,
                   created, msgs, nforks, clean, before, nlines>>
    /\ UNCHANGED <<input, scan>>

\* The program of process i ends of its own accord
ChildExitFree(i) ==
    /\ i \in 1..Len(child)
    /\ child[i].st = "running"
    /\ ~(InputEnds(child[i]) \/ OutputBroken(child[i]))
    /\ child' = [child EXCEPT ![i] = Exited(@, 0, FALSE)]
    /\ UNCHANGED <<ppc, tokens, commands, cmd_structs, pfd, pipes, idx, opened,
                   created, msgs, nforks, clean, before, nlines>>
    /\ UNCHANGED <<input, scan>>

\* the shell goes on to wait with its pipe descriptors open
ClosePipesSkipped ==
    /\ ppc = "close_pipes"
    /\ idx' = 0
    /\ ppc' = "wait"
    /\ UNCHANGED <<tokens, commands, cmd_structs, pfd, pipes, child, opened,
                   created, msgs, nforks, clean, before, nlines, input, scan>>

\* lines 670-674: the shell closes all pipe fds
ClosePipes ==
    /\ ppc = "close_pipes"
    /\ pfd' = CloseAll(pfd, PipeFds(pipes))
    /\ idx' = 0
    /\ ppc' = "wait"
    /\ UNCHANGED <<tokens, commands, cmd_structs, pipes, child, opened, created,
                   msgs, nforks, clean, before, nlines>>
    /\ UNCHANGED <<input, scan>>

\* waitpid(pids[idx], ..., WNOHANG): the loop goes on whether or not the child
\* has ended, and only a child that has ended is reaped
WaitNoHang ==
    /\ ppc = "wait"
    /\ child' = IF child[idx + 1].st = "exited"
                THEN [child EXCEPT ![idx + 1].st = "reaped"] ELSE child
    /\ idx' = idx + 1
    /\ ppc' = IF idx + 1 = cmd_count THEN "cleanup" ELSE "wait"
    /\ UNCHANGED <<tokens, commands, cmd_structs, pfd, pipes, opened, created,
                   msgs, nforks, clean, before, nlines>>
    /\ UNCHANGED <<input, scan>>

\* lines 676-680: one turn of the loop that waits, waitpid(pids[idx], ..., 0)
Wait ==
    /\ ppc = "wait"
    /\ child[idx + 1].st = "exited"
    /\ child' = [child EXCEPT ![idx + 1].st = "reaped"]
    /\ idx' = idx + 1
    /\ ppc' = IF idx + 1 = cmd_count THEN "cleanup" ELSE "wait"
    /\ UNCHANGED <<tokens, commands, cmd_structs, pfd, pipes, opened, created,
                   msgs, nforks, clean, before, nlines>>
    /\ UNCHANGED <<input, scan>>

\* a pipe end the shell still holds when execute_pipeline has returned belongs
\* to no pipeline the shell will run
Stale(d) == IF d.k = "pipe" THEN PipeEnd(0, d.m) ELSE d

\* execute_line, lines 150-165 with valid = 1, after execute_pipeline returned
Cleanup ==
    /\ ppc = "cleanup"
    /\ LET tab == CloseCmds(pfd, cmd_structs)
       IN  pfd' = [fd \in Fds |-> Stale(tab[fd])]
    /\ child' = <<>>
    /\ clean' = (nforks = cmd_count)
    /\ ppc' = "read"
    /\ UNCHANGED <<tokens, commands, cmd_structs, pipes, idx, opened, created,
                   msgs, nforks, before, nlines>>
    /\ UNCHANGED <<input, scan>>

----------------------------------------------------------------------------
(* The specifications *)

Stages == 1..MaxStages

ShellStep ==
    \/ \E line \in Lines :
         \/ LineBuiltin(line)
         \/ LineSplitError(line)
         \/ LineSimple(line)
         \/ LinePipeline(line)
    \/ ShellEof
    \/ ParseStage
    \/ CleanupInvalid
    \/ CmdWait
    \/ PipeCreate
    \/ Fork
    \/ ClosePipes
    \/ Wait
    \/ Cleanup

Next ==
    \/ ShellStep
    \/ SimpleChild
    \/ SimpleChildStop
    \/ SimpleChildCont
    \/ \E i \in Stages : ChildExec(i) \/ ChildExitEof(i) \/ ChildExitFree(i)

Spec == Init /\ [][Next]_vars

----------------------------------------------------------------------------
\* The liveness specification.  The scheduler runs every process that can
\* take a step: the shell, and every child up to its execvp.  A program that
\* was exec'd is only assumed to end once its input has ended or its writes
\* fail (ChildExitEof); it may end earlier (ChildExitFree), but need not.
LiveSpec ==
    /\ Spec
    /\ WF_vars(ShellStep)
    /\ WF_vars(SimpleChild)
    /\ \A i \in Stages : WF_vars(ChildExec(i)) /\ WF_vars(ChildExitEof(i))

----------------------------------------------------------------------------
(* split_pipeline on its own: the token sequences it is given *)

Words == <<"a", "b", "c">>

\* p pipes; every segment has len tokens but segment j, which has lenj
RECURSIVE SplitInput(_, _, _, _, _, _)
SplitInput(k, p, len, j, lenj, sofar) ==
    LET n == IF k = j THEN lenj ELSE len
        seg == [x \in 1..n |-> Words[((Len(sofar) + x) % 3) + 1]]
    IN  IF k > p THEN sofar \o seg
        ELSE SplitInput(k + 1, p, len, j, lenj, sofar \o seg \o <<"|">>)

\* lines ending in a `|` that have another empty segment before it
TrailingPipeInputs ==
    { <<"|">>, <<"a", "|", "|">>, <<"|", "a", "|">>, <<"a", "|", "b", "|", "|">> }

SplitInputs ==
    { SplitInput(1, p, len, j, lenj, <<>>) :
        p \in 0..MaxPipeTokens, len \in 1..MaxSegLen,
        j \in 1..(MaxPipeTokens + 1), lenj \in 0..MaxSegLen }
    \cup TrailingPipeInputs

SplitInit ==
    /\ ppc = "split"
    /\ tokens \in SplitInputs
    /\ commands = NoCommands
    /\ cmd_structs = <<>>
    /\ pfd = StdTable
    /\ pipes = <<>>
    /\ idx = 0
    /\ child = <<>>
    /\ opened = {}
    /\ created = {}
    /\ msgs = {}
    /\ nforks = 0
    /\ clean = FALSE
    /\ before = OpenFds(StdTable)
    /\ nlines = 0
    /\ input = <<>>
    /\ scan = NoScan

\* execute_line, line 100: split_pipeline(tokens, &cmd_count)
SplitApply ==
    /\ ppc = "split"
    /\ commands' = split_pipeline(tokens)
    /\ msgs' = IF split_pipeline(tokens).ok THEN {} ELSE {split_pipeline(tokens).err}
    /\ ppc' = "split_done"
    /\ UNCHANGED <<tokens, cmd_structs, pfd, pipes, idx, child, opened, created,
                   nforks, clean, before, nlines>>
    /\ UNCHANGED <<input, scan>>

SplitNext == SplitApply

SplitSpec == SplitInit /\ [][SplitNext]_vars

----------------------------------------------------------------------------
(* parse_input on its own.  A line is a sequence of characters and so is a
   token; input_copy is the buffer buf, whose terminating NUL is read at
   index Len(buf). *)

MaxLineLen == 5
\* and lines of up to this many words
MaxWords == 64

NUL == ""
Chars == {"a", " ", "\"", "'", ">"}

isspace(c) == c \in {" ", "\t", "\n", "\r"}

IsQuote(c) == c \in {"\"", "'"}

\* input_copy[i], i counted from 0
BufAt(buf, i) == IF i < Len(buf) THEN buf[i + 1] ELSE NUL

\* memmove(&input_copy[i], &input_copy[i + 1], len - i); len--
RemoveAt(buf, i) == SubSeq(buf, 1, i) \o SubSeq(buf, i + 2, Len(buf))

\* while (i < len && isspace(input_copy[i])) i++
RECURSIVE SkipSpace(_, _)
SkipSpace(buf, i) ==
    IF i < Len(buf) /\ isspace(BufAt(buf, i)) THEN SkipSpace(buf, i + 1) ELSE i

\* lines 92-113, "find end of token": the buffer and the index it stops at
RECURSIVE ScanToken(_, _, _, _)
ScanToken(buf, i, in_quotes, quote_char) ==
    IF i >= Len(buf) THEN [buf |-> buf, i |-> i]
    ELSE LET c == BufAt(buf, i) IN
         IF IsQuote(c) /\ ~in_quotes
         THEN ScanToken(RemoveAt(buf, i), i, TRUE, c)
         ELSE IF IsQuote(c) /\ c = quote_char
         THEN ScanToken(RemoveAt(buf, i), i, FALSE, quote_char)
         ELSE IF ~in_quotes /\ isspace(c)
         THEN [buf |-> buf, i |-> i]
         ELSE ScanToken(buf, i + 1, in_quotes, quote_char)

\* line 117: a token is stored when it has a character
StoresAnyToken(token_len) == TRUE

StoresToken(token_len) == token_len > 0

INITIAL_TOKENS_SIZE == 64

\* The token array: toks are the entries written, tokens_size the capacity it
\* was allocated with, oob whether an entry was written at an index that is
\* not below the capacity at the time of the write.
NewTokens == [toks |-> <<>>, tokens_size |-> INITIAL_TOKENS_SIZE, oob |-> FALSE]

\* tokens[position] = ...; position++
StoreAt(arr, tok) ==
    [arr EXCEPT !.toks = Append(@, tok),
                !.oob = @ \/ Len(arr.toks) >= arr.tokens_size]

\* lines 126-133: if (position >= tokens_size) the array is grown by realloc
Grow(arr) ==
    IF Len(arr.toks) >= arr.tokens_size
    THEN [arr EXCEPT !.tokens_size = @ + INITIAL_TOKENS_SIZE]
    ELSE arr

\* line 151: tokens[position] = NULL
Terminate(arr) == [arr EXCEPT !.oob = @ \/ Len(arr.toks) >= arr.tokens_size]

\* One turn of the outer while loop, lines 80-149, entered with i < len: the
\* buffer, the index and the token array it leaves.  The break of line 85
\* leaves i at len, where the loop test ends the loop as well.
TokenTurn(buf, i, arr) ==
    LET start == SkipSpace(buf, i) IN
    IF start >= Len(buf) THEN [buf |-> buf, i |-> start, arr |-> arr]
    ELSE LET r == ScanToken(buf, start, FALSE, NUL)
             token_len == r.i - start
             stored == IF StoresToken(token_len)
                       THEN Grow(StoreAt(arr, SubSeq(r.buf, start + 1, r.i)))
                       ELSE arr
             t == SkipSpace(r.buf, r.i)
         IN  IF BufAt(r.buf, t) = ">" /\ BufAt(r.buf, t + 1) = ">"
             THEN [buf |-> r.buf, i |-> t + 2, arr |-> StoreAt(stored, <<">", ">">>)]
             ELSE [buf |-> r.buf, i |-> t, arr |-> stored]

\* the token array parse_input has at this point: position is Len(toks)
TokenArray == [toks |-> tokens, tokens_size |-> scan.tokens_size, oob |-> scan.oob]

\* input_copy, i and the token array, as the variable scan keeps them
ScanOf(buf, i, arr) ==
    [input_copy |-> buf, i |-> i, tokens_size |-> arr.tokens_size, oob |-> arr.oob]

RECURSIVE LinesOfLen(_)
LinesOfLen(n) ==
    IF n = 0 THEN {<<>>}
    ELSE {Append(l, c) : l \in LinesOfLen(n - 1), c \in Chars}

\* n words, each followed by a space
WordsLine(n) == [k \in 1..(2 * n) |-> IF k % 2 = 1 THEN "a" ELSE " "]

\* lines of many words, ending in nothing, in `>>` or in `>> a`
LongLines ==
    { WordsLine(n) \o tail :
        n \in (MaxWords - 3)..MaxWords,
        tail \in {<<>>, <<">", ">">>, <<">", ">", " ", "a">>} }

\* the operators, character by character
OperatorWords == { <<"|">>, <<"<">>, <<">">>, <<"2", ">">>, <<">", ">">> }

\* `a "op" g` and `a 'op' g`: an operator written inside quotes
QuotedOperatorLines ==
    { <<"a", " ", q>> \o op \o <<q, " ", "g">> :
        op \in OperatorWords, q \in {"\"", "'"} }

InputLines ==
    UNION {LinesOfLen(n) : n \in 0..MaxLineLen} \cup LongLines
        \cup QuotedOperatorLines

\* lines 123-124: the characters of a token as the string stored for it
RECURSIVE TokenString(_)
TokenString(tok) ==
    IF tok = <<>> THEN "" ELSE Head(tok) \o TokenString(Tail(tok))

TokenStrings(toks) == [t \in 1..Len(toks) |-> TokenString(toks[t])]

ParseInit ==
    /\ ppc = "tokenize"
    /\ input \in InputLines
    /\ tokens = NewTokens.toks
    /\ scan = ScanOf(input, 0, NewTokens)
    /\ commands = NoCommands
    /\ cmd_structs = <<>>
    /\ pfd = StdTable
    /\ pipes = <<>>
    /\ idx = 0
    /\ child = <<>>
    /\ opened = {}
    /\ created = {}
    /\ msgs = {}
    /\ nforks = 0
    /\ clean = FALSE
    /\ before = OpenFds(StdTable)
    /\ nlines = 0

\* parse_input, lines 80-149: one turn of while (i < len)
ParseTurn ==
    /\ ppc = "tokenize"
    /\ scan.i < Len(scan.input_copy)
    /\ LET r == TokenTurn(scan.input_copy, scan.i, TokenArray) IN
         /\ tokens' = r.arr.toks
         /\ scan' = ScanOf(r.buf, r.i, r.arr)
    /\ UNCHANGED <<ppc, commands, cmd_structs, pfd, pipes, idx, child, opened,
                   created, msgs, nforks, clean, before, nlines, input>>

\* parse_input, lines 151-153, once the loop has ended: the NULL is written
\* after the tokens and they are returned to execute_line (line 86).
\* A write past the end of the token array is undefined: the shell is
\* aborted or corrupted ("undefined"), or it goes on with the tokens written.
ParseReturn ==
    /\ ppc = "tokenize"
    /\ scan.i >= Len(scan.input_copy)
    /\ LET arr == Terminate(TokenArray) IN
         /\ scan' = ScanOf(scan.input_copy, scan.i, arr)
         /\ \/ /\ tokens' = arr.toks
               /\ ppc' = "tokenized"
            \/ /\ arr.oob
               /\ tokens' = <<>>
               /\ ppc' = "undefined"
    /\ UNCHANGED <<commands, cmd_structs, pfd, pipes, idx, child, opened, created,
                   msgs, nforks, clean, before, nlines, input>>

ParseNext == ParseTurn \/ ParseReturn

ParseSpec == ParseInit /\ [][ParseNext]_vars

----------------------------------------------------------------------------
(* Properties *)

\* The runs of tokens between consecutive `|` tokens, read off the line
Runs(toks, run) ==
    LET at == {k \in 1..Len(toks) : toks[k] = "|"}
        n == Cardinality(at)
        pipe(j) == IF j = 0 THEN 0
                   ELSE IF j > n THEN Len(toks) + 1
                   ELSE CHOOSE k \in at : Cardinality({q \in at : q < k}) = j - 1
    IN  [j \in 1..(n + 1) |->
            (IF j = 1 THEN run ELSE <<>>) \o SubSeq(toks, pipe(j - 1) + 1, pipe(j) - 1)]

\* The operand of the last `op` of a segment, "" when there is none
Target(seg, op) ==
    LET at == {q \in 1..(Len(seg) - 1) : seg[q] = op}
    IN  IF at = {} THEN "" ELSE seg[(CHOOSE q \in at : \A r \in at : r <= q) + 1]

Segment(j) == Runs(tokens, <<>>)[j]

AllSpawned == nforks = cmd_count /\ Len(pipes) = cmd_count - 1

\* C1: when execute_pipeline returns after all its pipes and forks succeeded,
\* every one of the cmd_count children it forked has been waited for: none is
\* still running and none is an unreaped zombie.
C1_AllReapedAtReturn ==
    (ppc = "cleanup" /\ AllSpawned) =>
        /\ Len(child) = cmd_count
        /\ \A j \in 1..cmd_count : child[j].st = "reaped"

C1_Witness ==
    /\ ppc = "cleanup"
    /\ AllSpawned
    /\ cmd_count = 3
    /\ \A j \in 1..3 : child[j].st = "reaped"

\* C2: under fair scheduling, with programs that end once their input has
\* ended or their writes fail, a pipeline whose pipes and forks all succeeded
\* returns; and the write end of pipe i is held by no program other than
\* stage i and not by the waiting shell, so that stage i+1 reads end-of-file
\* once stage i has ended.
NoStrayWriter ==
    \A i \in 1..Len(pipes) :
        /\ ppc = "wait" => ~Holds(pfd, i, "w")
        /\ \A j \in 1..Len(child) :
               (child[j].st = "running" /\ j # i) => ~Holds(child[j].fd, i, "w")

C2_PipelineReturns ==
    /\ []NoStrayWriter
    /\ (ppc = "close_pipes") ~> (ppc = "cleanup")

C2_Witness ==
    /\ ppc = "wait"
    /\ cmd_count = 3
    /\ child[1].st \in {"exited", "reaped"}
    /\ child[2].st = "running"
    /\ child[2].fd[STDIN_FILENO] = PipeEnd(1, "r")
    /\ ~Held(1, "w")

\* C3: a pipeline stage that has exec'd reads from its input redirection file
\* if it has one, else from the pipe before it, else from the inherited
\* stream; writes to its output redirection file if it has one, else to the
\* pipe after it, else to the inherited stream; and has its error stream on
\* its error redirection file if it has one, else inherited.
ExpectedIn(j) ==
    IF Target(Segment(j), "<") # "" THEN File(Target(Segment(j), "<"), "r")
    ELSE IF j > 1 THEN PipeEnd(j - 1, "r") ELSE Tty

ExpectedOut(j) ==
    IF Target(Segment(j), ">") # "" THEN File(Target(Segment(j), ">"), "w")
    ELSE IF j < cmd_count THEN PipeEnd(j, "w") ELSE Tty

ExpectedErr(j) ==
    IF Target(Segment(j), "2>") # "" THEN File(Target(Segment(j), "2>"), "w")
    ELSE Tty

C3_StreamsAtExec ==
    \A j \in 1..Len(child) :
        (cmd_count > 1 /\ child[j].st = "running") =>
            /\ child[j].fd[STDIN_FILENO] = ExpectedIn(j)
            /\ child[j].fd[STDOUT_FILENO] = ExpectedOut(j)
            /\ child[j].fd[STDERR_FILENO] = ExpectedErr(j)

C3_Witness ==
    /\ tokens = <<"a", "|", "a", "<", "f", "|", "a">>
    /\ Len(child) >= 2
    /\ child[2].st = "running"
    /\ child[2].fd[STDIN_FILENO] = File("f", "r")
    /\ child[2].fd[STDOUT_FILENO] = PipeEnd(2, "w")
    /\ child[1].st = "running"
    /\ child[1].fd[STDOUT_FILENO] = PipeEnd(1, "w")

\* C4: after execute_line returns from a pipeline that parsed and spawned,
\* the shell has the same descriptors open as before the line.
C4_NoDescriptorLeak ==
    (ppc = "read" /\ nlines = 1 /\ clean) => OpenFds(pfd) = before

\* C5: a child whose exec or redirection setup fails ends with a non-zero
\* status and never goes on in the shell's own code.
C5_FailedChildExits ==
    \A j \in 1..Len(child) :
        /\ child[j].st # "returned"
        /\ child[j].failed =>
               child[j].st \in {"exited", "reaped"} /\ child[j].code # 0

C5_Witness ==
    /\ ppc = "wait"
    /\ cmd_count = 3
    /\ Len(child) >= 2
    /\ child[2].failed
    /\ child[2].st = "exited"
    /\ child[2].code = EXIT_FAILURE

\* C6: when parse_command fails, no descriptor it opened is still open.
C6_FailedParseClosesAll ==
    ppc = "invalid" => \A fd \in opened : pfd[fd] = Closed

\* C7: a segment made only of redirection operators and their operands gets
\* the missing-command error, none of its files is created or truncated, and
\* nothing is exec'd with an empty argument vector.
OnlyRedirections(seg) ==
    /\ seg # <<>>
    /\ \A q \in 1..Len(seg) : IF q % 2 = 1 THEN IsRedirOp(seg[q]) ELSE ~IsRedirOp(seg[q])
    /\ Len(seg) % 2 = 0

Operands(seg) == {seg[q] : q \in {r \in 1..Len(seg) : r % 2 = 0}}

LineDone == nlines = 1 /\ ppc \in {"read", "exited", "undefined"}

C7_RedirectionOnlySegment ==
    \A j \in 1..Len(Runs(tokens, <<>>)) :
        OnlyRedirections(Segment(j)) =>
            /\ created \cap Operands(Segment(j)) = {}
            /\ \A c \in 1..Len(child) : ~child[c].noargv
            /\ (LineDone /\ "myshell: fork failed" \notin msgs) =>
                   ErrMissingCommand \in msgs

\* C8: no process is forked for a line before one of its syntax errors is
\* reported.
SyntaxErrors ==
    { ErrMissingCommand, ErrMissingAfterPipe, ErrTooManyPipes, ErrMissingFile,
      "myshell: syntax error: missing input file",
      "myshell: syntax error: missing output file",
      "myshell: syntax error: missing error file" }

C8_SyntaxErrorBeforeFork ==
    msgs \cap SyntaxErrors # {} => nforks = 0

\* C9: split_pipeline accepts every line with at most 10 `|` tokens and no
\* empty segment, and reports too many pipes only for more than 10.
MAX_PIPES == 10

NoEmptySegment(toks) ==
    \A q \in 1..Len(Runs(toks, <<>>)) : Runs(toks, <<>>)[q] # <<>>

C9_TenPipesAccepted ==
    ppc = "split_done" =>
        /\ (Count(tokens, "|") <= MAX_PIPES /\ NoEmptySegment(tokens)) => commands.ok
        /\ commands.err = ErrTooManyPipes => Count(tokens, "|") > MAX_PIPES

\* C10: when split_pipeline succeeds, every segment is non-empty and holds no
\* `|`, there is one segment more than there are `|` tokens, and the segments
\* are, in order, the runs of tokens between the `|` tokens.
C10_SegmentsAreRuns ==
    (ppc = "split_done" /\ commands.ok) =>
        /\ \A q \in 1..Len(commands.cmds) :
               commands.cmds[q] # <<>> /\ Count(commands.cmds[q], "|") = 0
        /\ Len(commands.cmds) = Count(tokens, "|") + 1
        /\ commands.cmds = Runs(tokens, <<>>)

C10_Witness ==
    /\ ppc = "split_done"
    /\ commands.ok
    /\ tokens = <<"b", "c", "|", "b", "|", "a", "b">>
    /\ commands.cmds = << <<"b", "c">>, <<"b">>, <<"a", "b">> >>

CommandsBeforeLastPipe(toks) ==
    \A q \in 1..(Len(Runs(toks, <<>>)) - 1) : Runs(toks, <<>>)[q] # <<>>

TrailingOperator(seg) == seg # <<>> /\ IsRedirOp(Last(seg))

RedirTargets(seg) ==
    {seg[q + 1] : q \in {r \in 1..(Len(seg) - 1) : seg[r] \in {"<", ">", "2>", ">>"}}}

MissingTargetErrors ==
    { ErrMissingFile,
      "myshell: syntax error: missing input file",
      "myshell: syntax error: missing output file",
      "myshell: syntax error: missing error file" }

C12_TrailingOperator ==
    \A j \in 1..Len(Runs(tokens, <<>>)) :
        (commands.ok /\ TrailingOperator(Segment(j))) =>
            /\ created \cap RedirTargets(Segment(j)) = {}
            /\ \A c \in 1..Len(child) : child[c].st # "running"
            /\ (LineDone /\ "myshell: fork failed" \notin msgs) =>
                   msgs \cap MissingTargetErrors # {}
            /\ (cmd_count = 1 /\ Len(child) = 1 /\ child[1].st # "forked") =>
                   ~CountOverruns(tokens, 0)

\* C13: a program run for a segment holding `>> file`, alone or as a stage
\* of a pipeline, has its standard output on that file opened for appending,
\* and neither `>>` nor the file name is among its arguments.
HasAppend(seg) ==
    /\ Count(seg, ">>") = 1
    /\ Count(seg, ">") = 0
    /\ Last(seg) # ">>"

Elements(seq) == {seq[q] : q \in 1..Len(seq)}

C13_AppendRedirection ==
    \A j \in 1..Len(child) :
        (commands.ok /\ child[j].st = "running" /\ HasAppend(Segment(j))) =>
            /\ child[j].fd[STDOUT_FILENO] = File(Target(Segment(j), ">>"), "a")
            /\ Elements(child[j].argv) \cap {">>", Target(Segment(j), ">>")} = {}

\* C14: no token parse_input returns holds a `"` or a `'`: every quote
\* character is a delimiter and is removed, whichever of the two it is.
C14_NoQuoteInToken ==
    ppc = "tokenized" =>
        \A t \in 1..Len(tokens) : \A q \in 1..Len(tokens[t]) : ~IsQuote(tokens[t][q])

\* The words of a line when every quote character toggles the in-quotes
\* mode: a word ends at whitespace outside quotes or at the end of the line,
\* quote characters are left out, and a word with no character is dropped.
RECURSIVE ToggleWords(_, _, _, _)
ToggleWords(line, in_quotes, word, words) ==
    LET closed == IF word = <<>> THEN words ELSE Append(words, word) IN
    IF line = <<>> THEN closed
    ELSE IF IsQuote(Head(line))
    THEN ToggleWords(Tail(line), ~in_quotes, word, words)
    ELSE IF isspace(Head(line)) /\ ~in_quotes
    THEN ToggleWords(Tail(line), FALSE, <<>>, closed)
    ELSE ToggleWords(Tail(line), in_quotes, Append(word, Head(line)), words)

\* a token without the quote characters left in it
RECURSIVE Unquoted(_)
Unquoted(tok) ==
    IF tok = <<>> THEN <<>>
    ELSE IF IsQuote(Head(tok)) THEN Unquoted(Tail(tok))
    ELSE <<Head(tok)>> \o Unquoted(Tail(tok))

\* the tokens without their quote characters, those left empty dropped
RECURSIVE UnquotedTokens(_)
UnquotedTokens(toks) ==
    IF toks = <<>> THEN <<>>
    ELSE IF Unquoted(Head(toks)) = <<>> THEN UnquotedTokens(Tail(toks))
    ELSE <<Unquoted(Head(toks))>> \o UnquotedTokens(Tail(toks))

\* C15: whitespace inside a quoted span stays in the token, quoted and
\* unquoted text that touch make one token, and a token ends only at
\* whitespace outside quotes or at the end of the line.  Quote characters
\* left in a token are not counted here.
C15_TokensAreQuotedWords ==
    ppc = "tokenized" =>
        UnquotedTokens(tokens) = ToggleWords(input, FALSE, <<>>, <<>>)

\* C16: where the first `>` of a line without quotes starts a `>>` that
\* comes after a word, with or without whitespace in between, `>>` is a token
\* of its own, the tokens before it hold no `>`, and the text right after it
\* starts the next token.
AppendAfterWord(k) ==
    /\ input[k] = ">" /\ input[k + 1] = ">"
    /\ \A q \in 1..(k - 1) : ~IsQuote(input[q]) /\ input[q] # ">"
    /\ \E q \in 1..(k - 1) : ~isspace(input[q])

C16_AppendIsOwnToken ==
    ppc = "tokenized" =>
        \A k \in 2..(Len(input) - 1) :
            AppendAfterWord(k) =>
                \E t \in 2..Len(tokens) :
                    /\ tokens[t] = <<">", ">">>
                    /\ \A u \in 1..(t - 1) : \A q \in 1..Len(tokens[u]) : tokens[u][q] # ">"
                    /\ (k + 2 <= Len(input) /\ input[k + 2] = "a") =>
                           (t < Len(tokens) /\ Head(tokens[t + 1]) = "a")

\* C17: parse_input returns no empty token; a word that has no character
\* left once its quotes are removed is dropped.
C17_NoEmptyToken ==
    ppc = "tokenized" => \A t \in 1..Len(tokens) : tokens[t] # <<>>

C17_Witness ==
    /\ ppc = "tokenized"
    /\ input = <<"a", " ", "\"", "\"">>
    /\ tokens = << <<"a">> >>

\* C18: execute_command returns to the read loop only once the child it
\* forked has exited or was killed by a signal and that was collected; a
\* report that the child stopped does not make it return.
SimpleForked == nlines = 1 /\ commands.ok /\ cmd_count = 1 /\ Len(child) = 1

C18_WaitsThroughStop ==
    (SimpleForked /\ ppc # "cmd_wait") => child[1].st = "reaped"

C18_Witness ==
    /\ SimpleForked
    /\ ppc = "read"
    /\ child[1].st = "reaped"
    /\ child[1].stops = 1

\* C19: when a fork of execute_pipeline fails after earlier stages were
\* forked, no further stage is forked and, when execute_pipeline has
\* returned, every child it forked has been waited for.
C19_ForkFailureReaps ==
    (ppc = "cleanup" /\ "myshell: fork" \in msgs) =>
        /\ nforks = Len(child)
        /\ nforks < cmd_count
        /\ \A j \in 1..Len(child) : child[j].st = "reaped"

\* C20: when a pipe() or a fork() of execute_pipeline fails, the shell holds
\* no end of a pipe the call created when the call has returned.
C20_FailureClosesPipes ==
    (ppc = "cleanup" /\ ~AllSpawned) =>
        \A q \in 1..Len(pipes) :
            pfd[pipes[q][1]] = Closed /\ pfd[pipes[q][2]] = Closed

\* the entries of cmd_structs that a successful parse_command filled in
FilledEntries == 1..idx

\* lines 133-138: the entries the loop run on a parse failure has released
ReleasedOnFailure == IF ppc = "invalid" THEN 1..idx ELSE {}

\* lines 151-156: the entries the final loop of execute_line releases
FinalLoopEntries == 1..cmd_count

\* C21: in the pipeline branch of execute_line the entries the final loop
\* is about to release were all filled in by a successful parse_command and
\* none was released before, the shell does nothing undefined, and when the
\* line is done no redirection descriptor opened for it is still open.
C21_ReleasedExactlyOnce ==
    /\ ppc \in {"invalid", "cleanup"} =>
           \A j \in FinalLoopEntries :
               /\ j \in FilledEntries
               /\ cmd_structs[j] # Indeterminate
               /\ j \notin ReleasedOnFailure
    /\ ppc # "undefined"
    /\ (LineDone /\ commands.ok /\ cmd_count > 1) =>
           \A fd \in OpenFds(pfd) \ before : pfd[fd].k = "pipe"

\* C22: the shell keeps both ends of every pipe it created open until all
\* the children are forked, and holds no pipe descriptor while it waits.
ShellHoldsPipe(q) ==
    /\ pfd[pipes[q][1]] = PipeEnd(q, "r")
    /\ pfd[pipes[q][2]] = PipeEnd(q, "w")

C22_PipesClosedAfterSpawn ==
    /\ ppc \in {"pipes", "fork", "close_pipes"} =>
           \A q \in 1..Len(pipes) : ShellHoldsPipe(q)
    /\ ppc = "wait" =>
           /\ nforks = cmd_count
           /\ \A fd \in Fds : pfd[fd].k # "pipe"

C22_Witness ==
    /\ ppc = "wait"
    /\ cmd_count = 3
    /\ Len(pipes) = 2
    /\ Len(child) = 3
    /\ \A fd \in Fds : pfd[fd].k # "pipe"
    /\ \E j \in 1..3 : child[j].st = "running"

\* C23: a pipeline stage that has exec'd holds no pipe descriptor but its
\* standard input, on the read end of the pipe before it, and its standard
\* output, on the write end of the pipe after it.
C23_ChildHoldsOnlyItsEnds ==
    \A j \in 1..Len(child) :
        (cmd_count > 1 /\ child[j].st = "running") =>
            \A fd \in Fds :
                child[j].fd[fd].k = "pipe" =>
                    \/ fd = STDIN_FILENO /\ child[j].fd[fd] = PipeEnd(j - 1, "r")
                    \/ fd = STDOUT_FILENO /\ child[j].fd[fd] = PipeEnd(j, "w")

C23_Witness ==
    /\ cmd_count = 3
    /\ Len(child) >= 2
    /\ child[2].st = "running"
    /\ {fd \in Fds : child[2].fd[fd].k = "pipe"} = {STDIN_FILENO, STDOUT_FILENO}
    /\ child[2].fd[STDIN_FILENO] = PipeEnd(1, "r")
    /\ child[2].fd[STDOUT_FILENO] = PipeEnd(2, "w")

\* C24: for a simple command with a redirection, the target is opened by
\* parse_command in the shell, while a Command is built, and opened again by
\* setup_redirection in the child.
RedirectedStreams ==
    {fd \in {STDIN_FILENO, STDOUT_FILENO, STDERR_FILENO} : child[1].fd[fd].k = "file"}

C24_TargetOpenedTwice ==
    (SimpleForked /\ child[1].st = "running") =>
        \A s \in RedirectedStreams :
            \E fd \in opened : pfd[fd].k = "file" /\ pfd[fd].n = child[1].fd[s].n

\* the stream of the child of a simple command that operator op redirects
StreamIs(op, fd, mode) ==
    Count(tokens, op) = 1 => child[1].fd[fd] = File(Target(tokens, op), mode)

\* C24, as the code has it: for a simple command no Command is built and the
\* shell opens nothing; each redirection target is opened in the child only,
\* by setup_redirection, and is what the program's stream is bound to.
C24_TargetOpenedInChildOnly ==
    (SimpleForked /\ child[1].st = "running") =>
        /\ opened = {}
        /\ cmd_structs = <<>>
        /\ OpenFds(pfd) = before
        /\ StreamIs("<", STDIN_FILENO, "r")
        /\ StreamIs(">", STDOUT_FILENO, "w")
        /\ StreamIs(">>", STDOUT_FILENO, "a")
        /\ StreamIs("2>", STDERR_FILENO, "w")

C24_Witness ==
    /\ SimpleForked
    /\ child[1].st = "running"
    /\ tokens = <<"a", ">", "g">>
    /\ child[1].fd[STDOUT_FILENO] = File("g", "w")
    /\ opened = {}
    /\ OpenFds(pfd) = before

\* C25: every write parse_input makes into the token array, of a token, of
\* a merged `>>` or of the final NULL, is at an index below the capacity the
\* array has at that time.
C25_WritesWithinCapacity ==
    ~TokenArray.oob

\* C26: an operator written inside quotes comes out of parse_input as the
\* same token as the bare operator, and split_pipeline, parse_command and
\* setup_redirection then take it for the operator: `|` ends a segment, and
\* a redirection operator binds the stream to the file named after it and is
\* not among the arguments.
BoundTo(tab, fd, mode) == tab[fd] = File("g", mode)

C26_QuotedOperatorIsOperator ==
    (ppc = "tokenized" /\ input \in QuotedOperatorLines) =>
        LET toks == TokenStrings(tokens)
            op == toks[2]
            cmd == parse_command(toks, StdTable, {})
            red == setup_redirection(toks, StdTable, {})
        IN  /\ Len(tokens) = 3
            /\ tokens[2] \in OperatorWords
            /\ toks = <<"a", op, "g">>
            /\ op = "|" => split_pipeline(toks).cmds = << <<"a">>, <<"g">> >>
            /\ op = "<" =>
                   /\ cmd.cmd.args = <<"a">> /\ BoundTo(cmd.tab, cmd.cmd.input_fd, "r")
                   /\ red.argv = <<"a">> /\ BoundTo(red.tab, STDIN_FILENO, "r")
            /\ op = ">" =>
                   /\ cmd.cmd.args = <<"a">> /\ BoundTo(cmd.tab, cmd.cmd.output_fd, "w")
                   /\ red.argv = <<"a">> /\ BoundTo(red.tab, STDOUT_FILENO, "w")
            /\ op = "2>" =>
                   /\ cmd.cmd.args = <<"a">> /\ BoundTo(cmd.tab, cmd.cmd.error_fd, "w")
                   /\ red.argv = <<"a">> /\ BoundTo(red.tab, STDERR_FILENO, "w")
            /\ op = ">>" =>
                   /\ red.argv = <<"a">> /\ BoundTo(red.tab, STDOUT_FILENO, "a")
                   /\ cmd.cmd.args = <<"a">> /\ cmd.cmd.output_fd # -1

====
